---- MODULE Spec2Model ----
(***************************************************************************)
(* Model of the FTL log-tail endpoint (src/src/api/ftl.c,                  *)
(* api_ftl_dnsmasq_log) reading the shared FIFO log `fifo_log`, of the     *)
(* writer that appends to that log, and of a client that tails the log     *)
(* with the nextID cursor the endpoint reports.                            *)
(*                                                                         *)
(* The writer (add_to_fifo_buffer, fifo.c) and the layout of fifologData   *)
(* (fifo.h) are not among the source files at hand; they are modelled      *)
(* from spec.md sections 3 and 4.1.                                        *)
(*                                                                         *)
(* Further parts: the database endpoint api_ftl_database (ftl.c), the list *)
(* handler api_list (src/src/api/list.c), setting and getting config items *)
(* from the CLI (src/src/config/cli.c), and reading the config file and    *)
(* the debug settings (src/src/config/toml_reader.c). config.c, FTL.h,     *)
(* enums.h and the TOML library are not at hand either: duplicate_config,  *)
(* compare_config_item, replace_config, setDefaults, MAXLOGAGE, the        *)
(* privacy levels and the debug flags are modelled from spec.md.           *)
(***************************************************************************)
EXTENDS Integers, Sequences, FiniteSets, TLC

VARIABLES
    LOG_SIZE,   \* capacity of the log, fixed at construction
    fifo_log,   \* the shared fifologData: next_id, timestamp[], message[]
    appended,   \* number of lines the writer has appended so far
    req,        \* the last request's inputs and the handler's local `start`
    resp,       \* the last response: status, log array, nextID
    client,     \* the tailing client: its cursor and what it has received
    calls,      \* what the last API handler called or read, in order
    list_req,   \* the last request to api_list
    list_resp,  \* the last response of api_list
    database,   \* the last request to api_ftl_database: caller and replies sent
    config,     \* the live configuration: its items k, t, f, v in order
    cli,        \* the last CLI call: its arguments, return status and output
    cli_calls,  \* number of CLI calls made so far
    callers,    \* concurrent callers of set_config_from_CLI: position and locals
    toml,       \* the config file read by the last readFTLtoml
    ftl_conf,   \* the ConfigStruct `config` that readFTLtoml fills
    handler,    \* a running api_ftl_dnsmasq_log: its position and locals
    writer      \* a running append: "idle", or "written" before next_id++

ringVars == <<LOG_SIZE, fifo_log, appended, req, resp, client>>

listVars == <<list_req, list_resp, database>>

cliVars == <<config, cli, cli_calls>>

tomlVars == <<toml, ftl_conf>>

configVars == <<cliVars, callers, tomlVars>>

raceVars == <<handler, writer>>

vars == <<ringVars, calls, listVars, configVars, raceVars>>

----------------------------------------------------------------------------
(* Bounds of the model *)

\* largest capacity explored
MaxCapacity == 3

\* the writer stops after this many lines
MaxAppends == 7

\* timestamps handed to the writer are 1..MaxTime
MaxTime == 2

\* width, in bits, at which `unsigned int` arithmetic is modelled
UIntBits == 5

\* CLI calls made in one run
MaxCliCalls == 2

\* lines appended while a handler runs beside the writer
MaxRaceAppends == 3

\* width in bits of the unsigned int fields of ConfigStruct
CfgUIntBits == 17

----------------------------------------------------------------------------
(* unsigned int arithmetic *)

UINT_MOD == 2 ^ UIntBits

UINT_MAX == UINT_MOD - 1

\* a - b on unsigned int: wraps below 0
USub(a, b) == (a - b + UINT_MOD) % UINT_MOD

\* a + 1 on unsigned int
UInc(a) == (a + 1) % UINT_MOD

\* the values a client may send as nextID
RequestIds == (0 .. (MaxAppends + 2)) \cup {UINT_MAX}

Slots == 0 .. (LOG_SIZE - 1)

----------------------------------------------------------------------------
(* The log-tail handler, api_ftl_dnsmasq_log *)

\* lines 71-103: the slot the read loop starts at. `hasID` is the result of
\* get_uint_var(query_string, "nextID", &nextID) on a non-NULL query string.
ResolveStart_CaughtUpFromZero(cap, next_id, hasID, nextID) ==
    IF ~hasID THEN 0
    ELSE IF nextID >= next_id THEN 0
    ELSE IF next_id > cap /\ nextID < USub(next_id, cap) THEN 0
    ELSE IF next_id >= cap THEN USub(cap, USub(next_id, nextID))
    ELSE nextID

ResolveStart_StrictCaughtUp(cap, next_id, hasID, nextID) ==
    IF ~hasID THEN 0
    ELSE IF nextID > next_id THEN cap
    ELSE IF next_id > cap /\ nextID < USub(next_id, cap) THEN 0
    ELSE IF next_id >= cap THEN USub(cap, USub(next_id, nextID))
    ELSE nextID

ResolveStart_EvictedEmpty(cap, next_id, hasID, nextID) ==
    IF ~hasID THEN 0
    ELSE IF nextID >= next_id THEN cap
    ELSE IF next_id > cap /\ nextID < USub(next_id, cap) THEN cap
    ELSE IF next_id >= cap THEN USub(cap, USub(next_id, nextID))
    ELSE nextID

ResolveStart_NoFromStart(cap, next_id, hasID, nextID) ==
    IF ~hasID THEN 0
    ELSE IF nextID >= next_id THEN cap
    ELSE IF next_id > cap /\ nextID < USub(next_id, cap) THEN 0
    ELSE IF next_id >= cap THEN USub(cap, USub(next_id, nextID))
    ELSE 0

ResolveStart_MeasureFromStart(cap, next_id, hasID, nextID) ==
    IF ~hasID THEN 0
    ELSE IF nextID >= next_id THEN cap
    ELSE IF next_id > cap /\ nextID < USub(next_id, cap) THEN 0
    ELSE nextID

\* the test for an evicted id left out
ResolveStart_NoEvictionTest(cap, next_id, hasID, nextID) ==
    IF ~hasID THEN 0
    ELSE IF nextID >= next_id THEN cap
    ELSE IF next_id >= cap THEN USub(cap, USub(next_id, nextID))
    ELSE nextID

ResolveStart(cap, next_id, hasID, nextID) ==
    IF ~hasID THEN 0
    ELSE IF nextID >= next_id THEN cap
    ELSE IF next_id > cap /\ nextID < USub(next_id, cap) THEN 0
    ELSE IF next_id >= cap THEN USub(cap, USub(next_id, nextID))
    ELSE nextID

\* lines 108-120: for(i = start; i < LOG_SIZE; i++), leaving the loop at the
\* first slot whose timestamp is 0; each slot read adds {timestamp, message}.
RECURSIVE ReadLoop_NoSentinel(_, _, _)
ReadLoop_NoSentinel(log, i, cap) ==
    IF i >= cap THEN <<>>
    ELSE <<[timestamp |-> log.timestamp[i], message |-> log.message[i]]>>
         \o ReadLoop_NoSentinel(log, i + 1, cap)

RECURSIVE ReadLoop_ShortBound(_, _, _)
ReadLoop_ShortBound(log, i, cap) ==
    IF i >= cap - 1 THEN <<>>
    ELSE IF log.timestamp[i] = 0 THEN <<>>
    ELSE <<[timestamp |-> log.timestamp[i], message |-> log.message[i]]>>
         \o ReadLoop_ShortBound(log, i + 1, cap)

RECURSIVE ReadLoop(_, _, _)
ReadLoop(log, i, cap) ==
    IF i >= cap THEN <<>>
    ELSE IF log.timestamp[i] = 0 THEN <<>>
    ELSE <<[timestamp |-> log.timestamp[i], message |-> log.message[i]]>>
         \o ReadLoop(log, i + 1, cap)

\* lines 63-126: the whole handler. `auth` is what check_client_auth returns.
\* An unauthorized reply carries neither a log nor a nextID; resp.log and
\* resp.nextID are then <<>> and 0, and req.start is the untouched 0.
\* The handler assigns nothing in fifo_log. `calls` lists what it called and
\* which shared data it read.
api_ftl_dnsmasq_log_ReadsFirst(auth, hasID, nextID) ==
    LET start == ResolveStart(LOG_SIZE, fifo_log.next_id, hasID, nextID)
    IN  /\ req' = [auth |-> auth, hasID |-> hasID, nextID |-> nextID,
                   start |-> IF auth = "unauthorized" THEN 0 ELSE start]
        /\ resp' = IF auth = "unauthorized"
                   THEN [status |-> "unauthorized", log |-> <<>>, nextID |-> 0]
                   ELSE [status |-> "ok",
                         log |-> ReadLoop(fifo_log, start, LOG_SIZE),
                         nextID |-> fifo_log.next_id]
        /\ calls' = IF auth = "unauthorized"
                    THEN <<"fifo_log", "check_client_auth", "send_json_unauthorized">>
                    ELSE <<"fifo_log", "check_client_auth">>
        /\ fifo_log' = fifo_log

api_ftl_dnsmasq_log_ConsumesLog(auth, hasID, nextID) ==
    IF auth = "unauthorized"
    THEN /\ req' = [auth |-> auth, hasID |-> hasID, nextID |-> nextID, start |-> 0]
         /\ resp' = [status |-> "unauthorized", log |-> <<>>, nextID |-> 0]
         /\ calls' = <<"check_client_auth", "send_json_unauthorized">>
         /\ fifo_log' = fifo_log
    ELSE LET start == ResolveStart(LOG_SIZE, fifo_log.next_id, hasID, nextID)
         IN  /\ req' = [auth |-> auth, hasID |-> hasID, nextID |-> nextID,
                        start |-> start]
             /\ resp' = [status |-> "ok",
                         log |-> ReadLoop(fifo_log, start, LOG_SIZE),
                         nextID |-> fifo_log.next_id]
             /\ calls' = <<"check_client_auth", "fifo_log">>
             /\ fifo_log' = [fifo_log EXCEPT
                                !.timestamp = [i \in DOMAIN fifo_log.timestamp |->
                                                 IF i >= start THEN 0
                                                 ELSE fifo_log.timestamp[i]]]

api_ftl_dnsmasq_log(auth, hasID, nextID) ==
    IF auth = "unauthorized"
    THEN /\ req' = [auth |-> auth, hasID |-> hasID, nextID |-> nextID, start |-> 0]
         /\ resp' = [status |-> "unauthorized", log |-> <<>>, nextID |-> 0]
         /\ calls' = <<"check_client_auth", "send_json_unauthorized">>
         /\ fifo_log' = fifo_log
    ELSE LET start == ResolveStart(LOG_SIZE, fifo_log.next_id, hasID, nextID)
         IN  /\ req' = [auth |-> auth, hasID |-> hasID, nextID |-> nextID,
                        start |-> start]
             /\ resp' = [status |-> "ok",
                         log |-> ReadLoop(fifo_log, start, LOG_SIZE),
                         nextID |-> fifo_log.next_id]
             /\ calls' = <<"check_client_auth", "fifo_log">>
             /\ fifo_log' = fifo_log

----------------------------------------------------------------------------
(* The writer *)

\* append(timestamp, message): write slot next_id mod capacity, then
\* increment next_id. The message is the line's index in the writer's output.
add_to_fifo_buffer_SkipsId(ts) ==
    LET idx == fifo_log.next_id % LOG_SIZE
    IN  fifo_log' = [next_id |-> UInc(UInc(fifo_log.next_id)),
                     timestamp |-> [fifo_log.timestamp EXCEPT ![idx] = ts],
                     message |-> [fifo_log.message EXCEPT ![idx] = appended]]

add_to_fifo_buffer(ts) ==
    LET idx == fifo_log.next_id % LOG_SIZE
    IN  fifo_log' = [next_id |-> UInc(fifo_log.next_id),
                     timestamp |-> [fifo_log.timestamp EXCEPT ![idx] = ts],
                     message |-> [fifo_log.message EXCEPT ![idx] = appended]]

----------------------------------------------------------------------------
(* The tailing client *)

\* One poll: the first without a cursor, every later one with the nextID of
\* the previous response. The client appends the returned messages to what
\* it has received and keeps the reported nextID as its cursor.
\*   lagged: some poll came capacity or more appends after the previous one
\*   idle:   no append happened between the previous poll and this one
client_poll ==
    /\ api_ftl_dnsmasq_log("authorized", client.polls > 0, client.cursor)
    /\ client' = [cursor |-> resp'.nextID,
                  recv |-> client.recv \o [k \in 1 .. Len(resp'.log) |-> resp'.log[k].message],
                  polls |-> IF client.polls < 2 THEN client.polls + 1 ELSE 2,
                  lagged |-> client.lagged \/ (appended - client.seen >= LOG_SIZE),
                  idle |-> client.polls > 0 /\ appended = client.seen,
                  seen |-> appended]

\* lines 128-201: the reply to an unauthorized caller is sent and the
\* function goes on; JSON_SEND_OBJECT sends the data and returns
api_ftl_database(auth) ==
    LET refused == auth = "unauthorized"
    IN  /\ calls' = <<"check_client_auth">>
                     \o (IF refused THEN <<"send_json_unauthorized">> ELSE <<>>)
                     \o <<"get_database_stat", "get_number_of_queries_in_DB",
                          "get_sqlite3_version", "JSON_SEND_OBJECT">>
        /\ database' = [auth |-> auth,
                        sent |-> (IF refused THEN <<"unauthorized">> ELSE <<>>)
                                 \o <<"database">>]

----------------------------------------------------------------------------
(* The list handler, api_list (src/src/api/list.c) *)

\* request->local_uri below "/api", as its path segments
ListUris ==
    {<<"group">>, <<"group", "item">>,
     <<"adlist">>, <<"adlist", "item">>,
     <<"list", "allow">>, <<"list", "allow", "exact">>,
     <<"list", "allow", "regex">>,
     <<"list", "deny">>, <<"list", "deny", "exact">>,
     <<"list", "deny", "regex">>, <<"list", "deny", "regex", "item">>,
     <<"list">>, <<"list", "exact">>, <<"list", "regex">>}

\* how the gravity database answers during one request
DbOutcomes == {"ok", "add_fails", "del_fails", "read_fails", "rows_fail"}

HttpMethods == {"GET", "POST", "PUT", "PATCH", "DELETE", "OPTIONS"}

startsWith(prefix, uri) ==
    Len(prefix) <= Len(uri) /\ SubSeq(uri, 1, Len(prefix)) = prefix

\* lines 331-382: list type and can_modify from the URI
ListType(uri) ==
    IF startsWith(<<"group">>, uri)
    THEN [listtype |-> "GRAVITY_GROUPS", can_modify |-> TRUE]
    ELSE IF startsWith(<<"adlist">>, uri)
    THEN [listtype |-> "GRAVITY_ADLISTS", can_modify |-> TRUE]
    ELSE IF startsWith(<<"list", "allow">>, uri)
    THEN IF startsWith(<<"list", "allow", "exact">>, uri)
         THEN [listtype |-> "GRAVITY_DOMAINLIST_ALLOW_EXACT", can_modify |-> TRUE]
         ELSE IF startsWith(<<"list", "allow", "regex">>, uri)
         THEN [listtype |-> "GRAVITY_DOMAINLIST_ALLOW_REGEX", can_modify |-> TRUE]
         ELSE [listtype |-> "GRAVITY_DOMAINLIST_ALLOW_ALL", can_modify |-> FALSE]
    ELSE IF startsWith(<<"list", "deny">>, uri)
    THEN IF startsWith(<<"list", "deny", "exact">>, uri)
         THEN [listtype |-> "GRAVITY_DOMAINLIST_DENY_EXACT", can_modify |-> TRUE]
         ELSE IF startsWith(<<"list", "deny", "regex">>, uri)
         THEN [listtype |-> "GRAVITY_DOMAINLIST_DENY_REGEX", can_modify |-> TRUE]
         ELSE [listtype |-> "GRAVITY_DOMAINLIST_DENY_ALL", can_modify |-> FALSE]
    ELSE IF startsWith(<<"list", "exact">>, uri)
    THEN [listtype |-> "GRAVITY_DOMAINLIST_ALL_EXACT", can_modify |-> FALSE]
    ELSE IF startsWith(<<"list", "regex">>, uri)
    THEN [listtype |-> "GRAVITY_DOMAINLIST_ALL_REGEX", can_modify |-> FALSE]
    ELSE [listtype |-> "GRAVITY_DOMAINLIST_ALL_ALL", can_modify |-> FALSE]

\* lines 17-139. read_ok: gravityDB_readTable succeeded; rows_ok: reading the
\* rows left sql_msg NULL. The result is the reply and the database calls.
get_list(code, listtype, filter, read_ok, rows_ok) ==
    IF ~read_ok
    THEN [resp |-> [code |-> 400, error |-> "database_error", body |-> "none",
                    filter |-> filter],
          calls |-> <<"gravityDB_readTable">>]
    ELSE IF rows_ok
    THEN [resp |-> [code |-> code, error |-> "none",
                    body |-> IF listtype = "GRAVITY_GROUPS" THEN "groups"
                             ELSE IF listtype = "GRAVITY_ADLISTS" THEN "adlists"
                             ELSE "domains",
                    filter |-> filter],
          calls |-> <<"gravityDB_readTable", "gravityDB_readTableGetRow",
                      "gravityDB_readTableFinalize">>]
    ELSE [resp |-> [code |-> 400, error |-> "database_error", body |-> "none",
                    filter |-> filter],
          calls |-> <<"gravityDB_readTable", "gravityDB_readTableGetRow",
                      "gravityDB_readTableFinalize">>]

\* lines 141-163: the filter is the decoded last URI segment unless that
\* segment is one of the route words
api_list_read(uri, listtype, read_ok, rows_ok) ==
    LET last == uri[Len(uri)]
        filter == IF last \in {"exact", "regex", "allow", "deny", "list",
                               "group", "adlist"}
                  THEN "" ELSE last
    IN  get_list(200, listtype, filter, read_ok, rows_ok)

\* lines 170-193: the payload variable api_list_write asks for
RequiredField(listtype) ==
    CASE listtype = "GRAVITY_GROUPS" -> "name"
      [] listtype = "GRAVITY_ADLISTS" -> "address"
      [] OTHER -> "domain"

\* api_list_write that adds the row whether or not the payload has the field
api_list_write_AddsAnyway(listtype, method, has_field, add_ok, read_ok, rows_ok) ==
    IF ~has_field
    THEN [resp |-> [code |-> 400, error |-> "bad_request", body |-> "none",
                    filter |-> "none"],
          calls |-> <<"gravityDB_addToTable">>]
    ELSE IF add_ok
    THEN LET r == get_list(201, listtype, "argument", read_ok, rows_ok)
         IN  [resp |-> r.resp, calls |-> <<"gravityDB_addToTable">> \o r.calls]
    ELSE [resp |-> [code |-> 400, error |-> "database_error", body |-> "none",
                    filter |-> "none"],
          calls |-> <<"gravityDB_addToTable">>]

\* lines 165-283. has_field: the payload holds the variable the list type
\* needs (RequiredField); add_ok: gravityDB_addToTable succeeded.
api_list_write(listtype, method, has_field, add_ok, read_ok, rows_ok) ==
    IF ~has_field
    THEN [resp |-> [code |-> 400, error |-> "bad_request", body |-> "none",
                    filter |-> "none"],
          calls |-> <<>>]
    ELSE IF add_ok
    THEN LET r == get_list(201, listtype, "argument", read_ok, rows_ok)
         IN  [resp |-> r.resp, calls |-> <<"gravityDB_addToTable">> \o r.calls]
    ELSE [resp |-> [code |-> 400, error |-> "database_error", body |-> "none",
                    filter |-> "none"],
          calls |-> <<"gravityDB_addToTable">>]

\* lines 285-321. del_ok: gravityDB_delFromTable succeeded.
api_list_remove(listtype, del_ok) ==
    IF del_ok
    THEN [resp |-> [code |-> 204, error |-> "none", body |-> "none",
                    filter |-> "none"],
          calls |-> <<"gravityDB_delFromTable">>]
    ELSE [resp |-> [code |-> 400, error |-> "database_error", body |-> "none",
                    filter |-> "none"],
          calls |-> <<"gravityDB_delFromTable">>]

\* the dispatch without the tests of can_modify
api_list_dispatch_AnyList(uri, method, has_field, add_ok, del_ok, read_ok, rows_ok) ==
    LET t == ListType(uri)
    IN  IF method = "GET"
        THEN api_list_read(uri, t.listtype, read_ok, rows_ok)
        ELSE IF method \in {"POST", "PUT", "PATCH"}
        THEN api_list_write(t.listtype, method, has_field, add_ok, read_ok, rows_ok)
        ELSE IF method = "DELETE"
        THEN api_list_remove(t.listtype, del_ok)
        ELSE [resp |-> [code |-> 404, error |-> "none", body |-> "none",
                        filter |-> "none"],
              calls |-> <<>>]

\* lines 331-411: what api_list does once the client is let through
api_list_dispatch(uri, method, has_field, add_ok, del_ok, read_ok, rows_ok) ==
    LET t == ListType(uri)
    IN  IF method = "GET"
        THEN api_list_read(uri, t.listtype, read_ok, rows_ok)
        ELSE IF t.can_modify /\ method \in {"POST", "PUT", "PATCH"}
        THEN api_list_write(t.listtype, method, has_field, add_ok, read_ok, rows_ok)
        ELSE IF t.can_modify /\ method = "DELETE"
        THEN api_list_remove(t.listtype, del_ok)
        ELSE IF ~t.can_modify
        THEN [resp |-> [code |-> 400, error |-> "bad_request", body |-> "none",
                        filter |-> "none"],
              calls |-> <<>>]
        ELSE [resp |-> [code |-> 404, error |-> "none", body |-> "none",
                        filter |-> "none"],
              calls |-> <<>>]

\* lines 323-412: the whole handler
api_list_NoReturn(auth, uri, method, has_field, add_ok, del_ok, read_ok, rows_ok) ==
    LET r == api_list_dispatch(uri, method, has_field, add_ok, del_ok,
                               read_ok, rows_ok)
    IN  /\ list_req' = [auth |-> auth, uri |-> uri, method |-> method,
                        has_field |-> has_field]
        /\ list_resp' = IF auth = "unauthorized"
                        THEN [code |-> 401, error |-> "unauthorized",
                              body |-> "none", filter |-> "none"]
                        ELSE r.resp
        /\ calls' = IF auth = "unauthorized"
                    THEN <<"check_client_auth", "send_json_unauthorized">> \o r.calls
                    ELSE <<"check_client_auth">> \o r.calls

api_list(auth, uri, method, has_field, add_ok, del_ok, read_ok, rows_ok) ==
    IF auth = "unauthorized"
    THEN /\ list_req' = [auth |-> auth, uri |-> uri, method |-> method,
                         has_field |-> has_field]
         /\ list_resp' = [code |-> 401, error |-> "unauthorized",
                          body |-> "none", filter |-> "none"]
         /\ calls' = <<"check_client_auth", "send_json_unauthorized">>
    ELSE LET r == api_list_dispatch(uri, method, has_field, add_ok, del_ok,
                                    read_ok, rows_ok)
         IN  /\ list_req' = [auth |-> auth, uri |-> uri, method |-> method,
                             has_field |-> has_field]
             /\ list_resp' = r.resp
             /\ calls' = <<"check_client_auth">> \o r.calls

----------------------------------------------------------------------------
(* Parsing a config value from text, readStringValue (src/src/config/cli.c) *)

\* strcasecmp(a, b) == 0 on the texts used here
Lower(text) ==
    CASE text \in {"true", "TRUE", "True"} -> "true"
      [] text \in {"yes", "YES"} -> "yes"
      [] text \in {"false", "False"} -> "false"
      [] text \in {"no", "NO"} -> "no"
      [] text \in {"null", "NULL"} -> "null"
      [] text \in {"drop", "DROP"} -> "drop"
      [] text \in {"ip", "IP"} -> "ip"
      [] text \in {"pi.hole", "PI.HOLE"} -> "pi.hole"
      [] text \in {"hostnamefqdn", "HostnameFQDN"} -> "hostnamefqdn"
      [] text \in {"ipv4", "IPV4"} -> "ipv4"
      [] text \in {"all", "ALL"} -> "all"
      [] text \in {"local", "LOCAL"} -> "local"
      [] text \in {"bind", "BIND"} -> "bind"
      [] text \in {"default-auto", "Default-Auto"} -> "default-auto"
      [] text \in {"default-dark", "DEFAULT-DARK"} -> "default-dark"
      [] OTHER -> text

\* sscanf(value, "%i", &val) and "%li": the count of converted items and the
\* value; a leading number converts even when text follows it, 0x is hex
ScanSigned(text) ==
    CASE text = "0" -> [n |-> 1, val |-> 0]
      [] text = "1" -> [n |-> 1, val |-> 1]
      [] text = "3" -> [n |-> 1, val |-> 3]
      [] text = "4" -> [n |-> 1, val |-> 4]
      [] text = "-10" -> [n |-> 1, val |-> -10]
      [] text = "0x10" -> [n |-> 1, val |-> 16]
      [] text = "7up" -> [n |-> 1, val |-> 7]
      [] text = "3600" -> [n |-> 1, val |-> 3600]
      [] OTHER -> [n |-> 0, val |-> 0]

\* sscanf with "%u", "%hu", "%lu": decimal only, so "0x10" converts as 0
ScanUnsigned(text) ==
    CASE text = "0" -> [n |-> 1, val |-> 0]
      [] text = "2" -> [n |-> 1, val |-> 2]
      [] text = "53" -> [n |-> 1, val |-> 53]
      [] text = "300" -> [n |-> 1, val |-> 300]
      [] text = "5353" -> [n |-> 1, val |-> 5353]
      [] text = "0x10" -> [n |-> 1, val |-> 0]
      [] OTHER -> [n |-> 0, val |-> 0]

\* sscanf(value, "%lf", &val); the double is held in tenths
ScanDouble(text) ==
    CASE text = "1.5" -> [n |-> 1, val |-> 15]
      [] text = "2" -> [n |-> 1, val |-> 20]
      [] OTHER -> [n |-> 0, val |-> 0]

\* get_ptr_type_val, get_busy_reply_val, get_blocking_mode_val,
\* get_refresh_hostnames_val, get_listeningMode_val, get_web_theme_val:
\* the index of the name matching case-insensitively, or -1
EnumNames(t) ==
    CASE t = "CONF_ENUM_PTR_TYPE" -> <<"pi.hole", "hostname", "hostnamefqdn", "none">>
      [] t = "CONF_ENUM_BUSY_TYPE" -> <<"block", "allow", "refuse", "drop">>
      [] t = "CONF_ENUM_BLOCKING_MODE" -> <<"ip", "nx", "null", "ip_nodata_aaaa", "nodata">>
      [] t = "CONF_ENUM_REFRESH_HOSTNAMES" -> <<"all", "ipv4", "unknown", "none">>
      [] t = "CONF_ENUM_LISTENING_MODE" -> <<"local", "all", "single", "bind">>
      [] t = "CONF_ENUM_WEB_THEME" -> <<"default-auto", "default-light", "default-dark">>

EnumVal(t, text) ==
    LET names == EnumNames(t)
        hits == {i \in 1 .. Len(names) : names[i] = Lower(text)}
    IN  IF hits = {} THEN -1 ELSE (CHOOSE i \in hits : TRUE) - 1

\* inet_pton(AF_INET, ...) and inet_pton(AF_INET6, ...): 1 when the text is
\* an address of that family, else 0
inet_pton(af, text) ==
    IF af = "AF_INET" /\ text \in {"127.0.0.1", "192.168.2.1"} THEN 1
    ELSE IF af = "AF_INET6" /\ text \in {"::1", "fe80::1"} THEN 1
    ELSE 0

\* cJSON_Parse: NULL for text that is no JSON, else the parsed element
cJSON_Parse(text) ==
    CASE text = "[]" -> [valid |-> TRUE, isArray |-> TRUE, elems |-> <<>>, strings |-> TRUE]
      [] text = "[\"a\",\"b\"]" ->
            [valid |-> TRUE, isArray |-> TRUE, elems |-> <<"a", "b">>, strings |-> TRUE]
      [] text = "[\"a\",1]" ->
            [valid |-> TRUE, isArray |-> TRUE, elems |-> <<"a", "1">>, strings |-> FALSE]
      [] text = "{\"a\":1}" ->
            [valid |-> TRUE, isArray |-> FALSE, elems |-> <<>>, strings |-> FALSE]
      [] OTHER -> [valid |-> FALSE, isArray |-> FALSE, elems |-> <<>>, strings |-> FALSE]

PRIVACY_SHOW_ALL == 0

PRIVACY_MAXIMUM == 3

EnumTypes ==
    {"CONF_ENUM_PTR_TYPE", "CONF_ENUM_BUSY_TYPE", "CONF_ENUM_BLOCKING_MODE",
     "CONF_ENUM_REFRESH_HOSTNAMES", "CONF_ENUM_LISTENING_MODE", "CONF_ENUM_WEB_THEME"}

\* lines 26-303: parse `value` into item i of the candidate `conf`. The result
\* is the return value and the candidate afterwards. A string is stored as
\* [s, hashed]; hash_password(value) is [s |-> value, hashed |-> TRUE].
readStringValue(conf, i, value) ==
    LET t == conf[i].t
        set(v) == [ok |-> TRUE, conf |-> [conf EXCEPT ![i].v = v]]
        fail == [ok |-> FALSE, conf |-> conf]
    IN  CASE t = "CONF_BOOL" ->
                 IF Lower(value) \in {"true", "yes"} THEN set(TRUE)
                 ELSE IF Lower(value) \in {"false", "no"} THEN set(FALSE)
                 ELSE fail
          [] t \in {"CONF_INT", "CONF_LONG"} ->
                 IF ScanSigned(value).n = 1 THEN set(ScanSigned(value).val) ELSE fail
          [] t \in {"CONF_UINT", "CONF_UINT16", "CONF_ULONG"} ->
                 IF ScanUnsigned(value).n = 1 THEN set(ScanUnsigned(value).val) ELSE fail
          [] t = "CONF_DOUBLE" ->
                 IF ScanDouble(value).n = 1 THEN set(ScanDouble(value).val) ELSE fail
          [] t \in {"CONF_STRING", "CONF_STRING_ALLOCATED"} ->
                 [ok |-> TRUE,
                  conf |-> [conf EXCEPT ![i].v = [s |-> value, hashed |-> FALSE],
                                        ![i].t = "CONF_STRING_ALLOCATED"]]
          [] t = "CONF_PASSWORD" ->
                 \* conf_item--: the hash goes into the item before this one
                 [ok |-> TRUE,
                  conf |-> [conf EXCEPT ![i - 1].v = [s |-> value, hashed |-> TRUE],
                                        ![i - 1].t = "CONF_STRING_ALLOCATED"]]
          [] t \in EnumTypes ->
                 IF EnumVal(t, value) # -1 THEN set(EnumVal(t, value)) ELSE fail
          [] t = "CONF_ENUM_PRIVACY_LEVEL" ->
                 IF /\ ScanSigned(value).n = 1
                    /\ ScanSigned(value).val >= PRIVACY_SHOW_ALL
                    /\ ScanSigned(value).val <= PRIVACY_MAXIMUM
                 THEN set(ScanSigned(value).val) ELSE fail
          [] t = "CONF_STRUCT_IN_ADDR" ->
                 IF inet_pton("AF_INET", value) # 0 THEN set(value) ELSE fail
          [] t = "CONF_STRUCT_IN6_ADDR" ->
                 IF inet_pton("AF_INET6", value) # 0 THEN set(value) ELSE fail
          [] t = "CONF_JSON_STRING_ARRAY" ->
                 IF ~cJSON_Parse(value).valid THEN fail
                 ELSE IF ~cJSON_Parse(value).isArray THEN fail
                 ELSE IF ~cJSON_Parse(value).strings THEN fail
                 ELSE set(cJSON_Parse(value).elems)

----------------------------------------------------------------------------
(* Setting and getting a config item from the CLI (src/src/config/cli.c) *)

FLAG_RESTART_DNSMASQ == "FLAG_RESTART_DNSMASQ"

EXIT_SUCCESS == 0

EXIT_FAILURE == 1

Str(text) == [s |-> text, hashed |-> FALSE]

\* The items of struct config with their defaults, one item of every type
\* readStringValue handles. The password item follows the pwhash item.
ConfigItems ==
    << [k |-> "item.bool", t |-> "CONF_BOOL", f |-> {}, v |-> TRUE],
       [k |-> "item.int", t |-> "CONF_INT", f |-> {}, v |-> -10],
       [k |-> "item.uint", t |-> "CONF_UINT", f |-> {}, v |-> 2],
       [k |-> "item.uint16", t |-> "CONF_UINT16", f |-> {FLAG_RESTART_DNSMASQ}, v |-> 53],
       [k |-> "item.long", t |-> "CONF_LONG", f |-> {}, v |-> 3600],
       [k |-> "item.ulong", t |-> "CONF_ULONG", f |-> {}, v |-> 300],
       [k |-> "item.double", t |-> "CONF_DOUBLE", f |-> {}, v |-> 15],
       [k |-> "item.string", t |-> "CONF_STRING", f |-> {}, v |-> Str("pi.hole")],
       [k |-> "webserver.api.pwhash", t |-> "CONF_STRING", f |-> {}, v |-> Str("")],
       [k |-> "webserver.api.password", t |-> "CONF_PASSWORD", f |-> {}, v |-> Str("")],
       [k |-> "item.ptr_type", t |-> "CONF_ENUM_PTR_TYPE", f |-> {}, v |-> 0],
       [k |-> "item.busy_reply", t |-> "CONF_ENUM_BUSY_TYPE", f |-> {}, v |-> 0],
       [k |-> "item.blocking_mode", t |-> "CONF_ENUM_BLOCKING_MODE", f |-> {}, v |-> 2],
       [k |-> "item.refresh_hostnames", t |-> "CONF_ENUM_REFRESH_HOSTNAMES", f |-> {}, v |-> 1],
       [k |-> "item.listeningMode", t |-> "CONF_ENUM_LISTENING_MODE",
        f |-> {FLAG_RESTART_DNSMASQ}, v |-> 0],
       [k |-> "item.privacylevel", t |-> "CONF_ENUM_PRIVACY_LEVEL", f |-> {}, v |-> 0],
       [k |-> "item.web_theme", t |-> "CONF_ENUM_WEB_THEME", f |-> {}, v |-> 0],
       [k |-> "item.in_addr", t |-> "CONF_STRUCT_IN_ADDR", f |-> {}, v |-> "127.0.0.1"],
       [k |-> "item.in6_addr", t |-> "CONF_STRUCT_IN6_ADDR", f |-> {}, v |-> "::1"],
       [k |-> "dns.hosts", t |-> "CONF_JSON_STRING_ARRAY", f |-> {}, v |-> <<>>] >>

CONFIG_ELEMENTS == Len(ConfigItems)

\* the value texts a caller passes for an item of type t
ValueTexts(t) ==
    CASE t = "CONF_BOOL" -> {"YES", "no", "maybe"}
      [] t = "CONF_INT" -> {"-10", "0x10", "7up", "abc"}
      [] t = "CONF_UINT" -> {"2", "300", "abc"}
      [] t = "CONF_UINT16" -> {"53", "5353", "abc"}
      [] t = "CONF_LONG" -> {"3600", "4", "abc"}
      [] t = "CONF_ULONG" -> {"300", "0x10", "abc"}
      [] t = "CONF_DOUBLE" -> {"1.5", "2", "abc"}
      [] t \in {"CONF_STRING", "CONF_STRING_ALLOCATED"} -> {"pi.hole", "hostname"}
      [] t = "CONF_PASSWORD" -> {"secret", "abc"}
      [] t = "CONF_ENUM_PTR_TYPE" -> {"PI.HOLE", "none", "abc"}
      [] t = "CONF_ENUM_BUSY_TYPE" -> {"block", "DROP", "abc"}
      [] t = "CONF_ENUM_BLOCKING_MODE" -> {"NULL", "IP", "abc"}
      [] t = "CONF_ENUM_REFRESH_HOSTNAMES" -> {"IPV4", "all", "abc"}
      [] t = "CONF_ENUM_LISTENING_MODE" -> {"LOCAL", "BIND", "abc"}
      [] t = "CONF_ENUM_PRIVACY_LEVEL" -> {"0", "3", "4", "abc"}
      [] t = "CONF_ENUM_WEB_THEME" -> {"Default-Auto", "DEFAULT-DARK", "abc"}
      [] t = "CONF_STRUCT_IN_ADDR" -> {"127.0.0.1", "192.168.2.1", "::1"}
      [] t = "CONF_STRUCT_IN6_ADDR" -> {"::1", "fe80::1", "127.0.0.1"}
      [] t = "CONF_JSON_STRING_ARRAY" ->
            {"[]", "[\"a\",\"b\"]", "[\"a\",1]", "{\"a\":1}", "abc"}

Keys == {ConfigItems[i].k : i \in 1 .. CONFIG_ELEMENTS} \cup {"no.such.key"}

\* lines 312-328 and 391-402: the first item whose key is `key`, 0 for none
FindItem(conf, key) ==
    LET hits == {i \in 1 .. CONFIG_ELEMENTS : conf[i].k = key}
    IN  IF hits = {} THEN 0 ELSE CHOOSE i \in hits : \A j \in hits : i <= j

\* duplicate_config(&newconf, &config): a copy that shares nothing
duplicate_config(conf) == conf

\* compare_config_item(t, val1, val2): TRUE when the two values are equal
compare_config_item(t, val1, val2) == val1 = val2

\* the value readStringValue stores for `value` and where it stores it
Parsed(conf, i, value) ==
    LET j == IF conf[i].t = "CONF_PASSWORD" THEN i - 1 ELSE i
    IN  readStringValue(conf, i, value).conf[j].v

CliResult(ret, conf, out, trace) ==
    [ret |-> ret, config |-> conf, out |-> out, calls |-> trace]

NoOutput == [t |-> "none", v |-> "none"]

\* lines 341-384 with the test of the return value of readStringValue left
\* out: a value that does not parse goes on to the comparison
set_config_from_CLI_IgnoresParse(conf, key, value, dnsmasq_ok) ==
    LET newconf == duplicate_config(conf)
        i == FindItem(newconf, key)
        r == readStringValue(newconf, i, value)
    IN  IF i = 0 THEN CliResult(2, conf, NoOutput, <<"duplicate_config">>)
        ELSE CliResult(EXIT_SUCCESS, r.conf, [t |-> r.conf[i].t, v |-> r.conf[i].v],
                       <<"duplicate_config", "readStringValue", "compare_config_item",
                         "replace_config", "writeTOMLvalue", "writeFTLtoml">>)

\* the candidate installed before the trial write of the dnsmasq config
set_config_from_CLI_InstallsFirst(conf, key, value, dnsmasq_ok) ==
    LET newconf == duplicate_config(conf)
        i == FindItem(newconf, key)
        r == readStringValue(newconf, i, value)
    IN  IF i = 0 THEN CliResult(2, conf, NoOutput, <<"duplicate_config">>)
        ELSE IF ~r.ok
        THEN CliResult(0, conf, NoOutput, <<"duplicate_config", "readStringValue">>)
        ELSE IF ~dnsmasq_ok
        THEN CliResult(3, r.conf, NoOutput,
                       <<"duplicate_config", "readStringValue", "compare_config_item",
                         "replace_config", "write_dnsmasq_config">>)
        ELSE CliResult(EXIT_SUCCESS, r.conf, [t |-> r.conf[i].t, v |-> r.conf[i].v],
                       <<"duplicate_config", "readStringValue", "compare_config_item",
                         "replace_config", "write_dnsmasq_config", "writeTOMLvalue",
                         "writeFTLtoml">>)

\* the candidate installed without comparing it with the live value
set_config_from_CLI_NoCompare(conf, key, value, dnsmasq_ok) ==
    LET newconf == duplicate_config(conf)
        i == FindItem(newconf, key)
        r == readStringValue(newconf, i, value)
    IN  IF i = 0 THEN CliResult(2, conf, NoOutput, <<"duplicate_config">>)
        ELSE IF ~r.ok
        THEN CliResult(0, conf, NoOutput, <<"duplicate_config", "readStringValue">>)
        ELSE IF FLAG_RESTART_DNSMASQ \in conf[i].f /\ ~dnsmasq_ok
        THEN CliResult(3, conf, NoOutput,
                       <<"duplicate_config", "readStringValue", "write_dnsmasq_config">>)
        ELSE CliResult(EXIT_SUCCESS, r.conf, [t |-> r.conf[i].t, v |-> r.conf[i].v],
                       <<"duplicate_config", "readStringValue", "replace_config",
                         "writeTOMLvalue", "writeFTLtoml">>)

\* lines 305-385. `conf` is the live config, dnsmasq_ok is whether the trial
\* write_dnsmasq_config(&newconf, true, errbuf) succeeds. The result is the
\* return status, the live config afterwards, the value printed and the calls
\* made in order.
set_config_from_CLI(conf, key, value, dnsmasq_ok) ==
    LET newconf == duplicate_config(conf)
        i == FindItem(newconf, key)
        r == readStringValue(newconf, i, value)
        parsed == <<"duplicate_config", "readStringValue", "compare_config_item">>
        printed == <<"writeTOMLvalue", "writeFTLtoml">>
    IN  IF i = 0
        THEN CliResult(2, conf, NoOutput, <<"duplicate_config">>)
        ELSE IF ~r.ok
        THEN \* return false
             CliResult(0, conf, NoOutput, <<"duplicate_config", "readStringValue">>)
        ELSE IF ~compare_config_item(conf[i].t, r.conf[i].v, conf[i].v)
        THEN IF FLAG_RESTART_DNSMASQ \in conf[i].f
             THEN IF ~dnsmasq_ok
                  THEN CliResult(3, conf, NoOutput, parsed \o <<"write_dnsmasq_config">>)
                  ELSE CliResult(EXIT_SUCCESS, r.conf,
                                 [t |-> r.conf[i].t, v |-> r.conf[i].v],
                                 parsed \o <<"write_dnsmasq_config", "replace_config">>
                                        \o printed)
             ELSE IF conf[i].k = "dns.hosts"
             THEN CliResult(EXIT_SUCCESS, r.conf,
                            [t |-> r.conf[i].t, v |-> r.conf[i].v],
                            parsed \o <<"write_custom_list", "replace_config">> \o printed)
             ELSE CliResult(EXIT_SUCCESS, r.conf,
                            [t |-> r.conf[i].t, v |-> r.conf[i].v],
                            parsed \o <<"replace_config">> \o printed)
        ELSE CliResult(EXIT_SUCCESS, conf, [t |-> conf[i].t, v |-> conf[i].v],
                       parsed \o <<"free_config">> \o printed)

\* lines 387-421
get_config_from_CLI(conf, key, quiet) ==
    LET i == FindItem(conf, key)
    IN  IF i = 0 THEN CliResult(2, conf, NoOutput, <<>>)
        ELSE IF quiet /\ conf[i].t = "CONF_BOOL"
        THEN CliResult(IF conf[i].v THEN EXIT_SUCCESS ELSE EXIT_FAILURE, conf,
                       NoOutput, <<>>)
        ELSE CliResult(EXIT_SUCCESS, conf, [t |-> conf[i].t, v |-> conf[i].v],
                       <<"writeTOMLvalue">>)

----------------------------------------------------------------------------
(* Reading the config file, readFTLtoml (src/src/config/toml_reader.c) *)

CFG_UINT_MOD == 2 ^ CfgUIntBits

\* assignment of a non-negative int64_t to an unsigned int field
ToUInt(x) == x % CFG_UINT_MOD

MAXLOGAGE == 24

\* toml_datum_t as toml_int_in returns it: ok and the integer u.i
Absent == [ok |-> FALSE, i |-> 0]

Datum(x) == [ok |-> TRUE, i |-> x]

\* toml_datum_t as toml_bool_in returns it: ok and the boolean u.b; the
\* datum of a missing key is all zero
AbsentBool == [ok |-> FALSE, b |-> FALSE]

BoolDatum(b) == [ok |-> TRUE, b |-> b]

\* toml_datum_t as toml_string_in returns it: ok and the string u.s
AbsentString == [ok |-> FALSE, s |-> ""]

StringDatum(text) == [ok |-> TRUE, s |-> text]

\* a struct in6_addr nothing was written to
NoAddress == [af |-> "none", text |-> ""]

\* the bits of enum debug_flag modelled, in ascending order; ~0 sets them all
DebugFlags == <<"DEBUG_DATABASE", "DEBUG_DNSMASQ_LINES", "DEBUG_EXTRA">>

AllDebugBits == {DebugFlags[k] : k \in 1 .. Len(DebugFlags)}

\* the flags the loop "flag = DEBUG_DATABASE; flag < DEBUG_EXTRA; flag <<= 1"
\* visits
LoopedFlags == {DebugFlags[k] : k \in 1 .. Len(DebugFlags) - 1}

\* the values of setDefaults() for the fields modelled
Defaults == [maxlogage |-> MAXLOGAGE * 3600, DBinterval |-> 60, delay_startup |-> 0,
             privacylevel |-> PRIVACY_SHOW_ALL, session_timeout |-> 300,
             cname_deep_inspection |-> TRUE, block_esni |-> TRUE,
             overwrite_v6 |-> FALSE, v6 |-> NoAddress,
             maxDBdays |-> 365, network_expire |-> 365, debug |-> {}]

\* the integers a config file gives a key, or no such key; the last two of
\* sessionTimeout do not fit an unsigned int
FileValues(key) ==
    {Absent} \cup
    {Datum(x) : x \in
        CASE key = "maxHistory" -> {-1, 0, MAXLOGAGE * 3600, MAXLOGAGE * 3600 + 1}
          [] key = "DBinterval" -> {9, 10, 86400, 86401}
          [] key = "delayStartup" -> {-1, 0, 300, 301}
          [] key = "privacyLevel" ->
                {PRIVACY_SHOW_ALL - 1, PRIVACY_SHOW_ALL, PRIVACY_MAXIMUM,
                 PRIVACY_MAXIMUM + 1}
          [] key = "sessionTimeout" ->
                {-1, 0, 600, CFG_UINT_MOD - 1, CFG_UINT_MOD, CFG_UINT_MOD + 1}}

\* a file that cannot be opened or parsed: parseTOML returns NULL
NoFile == [exists |-> FALSE, maxHistory |-> Absent, DBinterval |-> Absent,
           delayStartup |-> Absent, privacyLevel |-> Absent, sessionTimeout |-> Absent,
           CNAMEdeepInspect |-> AbsentBool, blockESNI |-> AbsentBool,
           IPv6 |-> AbsentString, maxDBdays |-> Absent, expire |-> Absent,
           debugAll |-> AbsentBool,
           debugFlag |-> [f \in LoopedFlags |-> AbsentBool]]

\* the values a config file gives a boolean key, or no such key
BoolValues == {AbsentBool, BoolDatum(TRUE), BoolDatum(FALSE)}

\* the texts a config file gives dns.ipBlocking.IPv6, or no such key
AddressValues == {AbsentString, StringDatum("::1"), StringDatum("192.168.2.1"),
                  StringDatum("abc")}

\* INT_MAX / 24 / 60 / 60, line 192
maxdbdays_max == ((2147483647 \div 24) \div 60) \div 60

\* the integers a config file gives database.maxDBdays and
\* database.network.expire, or no such key
DayValues(key) ==
    CASE key = "maxDBdays" -> {Absent, Datum(-2), Datum(-1), Datum(30)}
      [] key = "expire" -> {Absent, Datum(0), Datum(1), Datum(365), Datum(366)}

\* toml_table_in(conf, section): the section is there when a key of it is
HasDatabase(file) ==
    file.maxHistory.ok \/ file.DBinterval.ok \/ file.maxDBdays.ok \/ file.expire.ok

HasDns(file) == file.CNAMEdeepInspect.ok \/ file.blockESNI.ok \/ file.IPv6.ok

HasDebug(file) ==
    file.debugAll.ok \/ \E f \in LoopedFlags : file.debugFlag[f].ok

HasHttp(file) == file.sessionTimeout.ok

HasMisc(file) == file.delayStartup.ok \/ file.privacyLevel.ok

\* a file with no other table than [debug]
OnlyDebug(file) ==
    ~HasDns(file) /\ ~HasDatabase(file) /\ ~HasHttp(file) /\ ~HasMisc(file)

\* lines 455-486
getPrivacyLevel(file, conf) ==
    IF ~file.exists \/ ~HasMisc(file) \/ ~file.privacyLevel.ok THEN conf
    ELSE IF /\ file.privacyLevel.i >= PRIVACY_SHOW_ALL
            /\ file.privacyLevel.i <= PRIVACY_MAXIMUM
    THEN [conf EXCEPT !.privacylevel = file.privacyLevel.i]
    ELSE conf

\* lines 177-187
ReadMaxHistory(file, conf) ==
    IF ~file.maxHistory.ok THEN conf
    ELSE IF file.maxHistory.i >= 0 /\ file.maxHistory.i <= MAXLOGAGE * 3600
    THEN [conf EXCEPT !.maxlogage = ToUInt(file.maxHistory.i)]
    ELSE conf

\* lines 206-218
ReadDBinterval(file, conf) ==
    IF ~file.DBinterval.ok THEN conf
    ELSE IF file.DBinterval.i >= 10 /\ file.DBinterval.i <= 24 * 60 * 60
    THEN [conf EXCEPT !.DBinterval = ToUInt(file.DBinterval.i)]
    ELSE conf

\* lines 264-273
ReadSessionTimeout(file, conf) ==
    IF ~file.sessionTimeout.ok THEN conf
    ELSE IF file.sessionTimeout.i >= 0
    THEN [conf EXCEPT !.session_timeout = ToUInt(file.sessionTimeout.i)]
    ELSE conf

\* lines 399-409
ReadDelayStartup(file, conf) ==
    IF ~file.delayStartup.ok THEN conf
    ELSE IF file.delayStartup.i >= 0 /\ file.delayStartup.i <= 300
    THEN [conf EXCEPT !.delay_startup = ToUInt(file.delayStartup.i)]
    ELSE conf

\* lines 54-58
ReadCNAMEdeepInspect(file, conf) ==
    IF file.CNAMEdeepInspect.ok
    THEN [conf EXCEPT !.cname_deep_inspection = file.CNAMEdeepInspect.b]
    ELSE conf

\* lines 60-64
ReadBlockESNI(file, conf) ==
    IF file.blockESNI.ok
    THEN [conf EXCEPT !.block_esni = file.CNAMEdeepInspect.b]
    ELSE conf

\* lines 94-102, inside the table dns.ipBlocking
ReadIPv6(file, conf) ==
    IF ~file.IPv6.ok THEN conf
    ELSE IF inet_pton("AF_INET", file.IPv6.s) # 0
    THEN [conf EXCEPT !.v6 = [af |-> "AF_INET", text |-> file.IPv6.s],
                      !.overwrite_v6 = TRUE]
    ELSE conf

\* lines 189-204
ReadMaxDBdays(file, conf) ==
    IF ~file.maxDBdays.ok THEN conf
    ELSE IF file.maxDBdays.i > maxdbdays_max
    THEN [conf EXCEPT !.maxDBdays = maxdbdays_max]
    ELSE IF file.maxDBdays.i = -1 \/ file.maxDBdays.i >= 0
    THEN [conf EXCEPT !.maxDBdays = file.maxDBdays.i]
    ELSE conf

\* lines 230-240, inside the table database.network
ReadExpire(file, conf) ==
    IF ~file.expire.ok THEN conf
    ELSE IF file.expire.i > 0 /\ file.expire.i <= 365
    THEN [conf EXCEPT !.maxDBdays = file.expire.i]
    ELSE conf

\* lines 532-587: the flags are looked at only when debug.all is there and
\* false
readDebugSettings(file, conf) ==
    IF ~file.exists \/ ~HasDebug(file) THEN conf
    ELSE IF file.debugAll.ok /\ file.debugAll.b
    THEN [conf EXCEPT !.debug = AllDebugBits]
    ELSE IF ~file.debugAll.ok THEN conf
    ELSE [conf EXCEPT !.debug =
            (@ \cup {f \in LoopedFlags : file.debugFlag[f].ok /\ file.debugFlag[f].b})
               \ {f \in LoopedFlags : file.debugFlag[f].ok /\ ~file.debugFlag[f].b}]

\* lines 34-426, the fields modelled: setDefaults, readDebugSettings, then
\* the sections [dns], [database], [http] and [misc] in this order
readFTLtoml(file) ==
    IF ~file.exists THEN Defaults
    ELSE LET d0 == readDebugSettings(file, Defaults)
             c0 == IF HasDns(file)
                   THEN ReadIPv6(file, ReadBlockESNI(file,
                                          ReadCNAMEdeepInspect(file, d0)))
                   ELSE d0
             c1 == IF HasDatabase(file)
                   THEN ReadExpire(file, ReadDBinterval(file,
                            ReadMaxDBdays(file, ReadMaxHistory(file, c0))))
                   ELSE c0
             c2 == IF HasHttp(file) THEN ReadSessionTimeout(file, c1) ELSE c1
         IN  IF HasMisc(file)
             THEN ReadDelayStartup(file, getPrivacyLevel(file, c2))
             ELSE c2

----------------------------------------------------------------------------
(* Initial state and actions *)

\* no request handled yet on the connection
NoRequest == [auth |-> "none", hasID |-> FALSE, nextID |-> 0, start |-> 0]

NoResponse == [status |-> "none", log |-> <<>>, nextID |-> 0]

NoListRequest == [auth |-> "none", uri |-> <<>>, method |-> "none",
                  has_field |-> FALSE]

\* no handler is running
IdleHandler == [pc |-> "idle", hasID |-> FALSE, nextID |-> 0, start |-> 0, i |-> 0,
                log |-> <<>>]

\* two callers of set_config_from_CLI, neither has started
Callers == {1, 2}

IdleCaller == [pc |-> "idle", key |-> "none", value |-> "none", dnsmasq_ok |-> TRUE,
               newconf |-> <<>>, ret |-> -1]

\* no CLI call made yet
NoCliCall == [op |-> "none", key |-> "none", value |-> "none", quiet |-> FALSE,
              dnsmasq_ok |-> TRUE, ret |-> 0, out |-> NoOutput]

NoListResponse == [code |-> 0, error |-> "none", body |-> "none",
                   filter |-> "none"]

\* no request to api_ftl_database handled on the connection
NoDatabaseRequest == [auth |-> "none", sent |-> <<>>]

Init ==
    /\ LOG_SIZE \in 1 .. MaxCapacity
    /\ fifo_log = [next_id |-> 0,
                   timestamp |-> [i \in 0 .. (LOG_SIZE - 1) |-> 0],
                   message |-> [i \in 0 .. (LOG_SIZE - 1) |-> -1]]
    /\ appended = 0
    /\ req = NoRequest
    /\ resp = NoResponse
    /\ client = [cursor |-> 0, recv |-> <<>>, polls |-> 0, lagged |-> FALSE,
                 idle |-> FALSE, seen |-> 0]
    /\ calls = <<>>
    /\ list_req = NoListRequest
    /\ list_resp = NoListResponse
    /\ config = ConfigItems
    /\ cli = NoCliCall
    /\ cli_calls = 0
    /\ callers = [c \in Callers |-> IdleCaller]
    /\ handler = IdleHandler
    /\ writer = "idle"
    /\ toml = NoFile
    /\ database = NoDatabaseRequest
    /\ ftl_conf = [maxlogage |-> 0, DBinterval |-> 0, delay_startup |-> 0,
                   privacylevel |-> 0, session_timeout |-> 0,
                   cname_deep_inspection |-> FALSE, block_esni |-> FALSE,
                   overwrite_v6 |-> FALSE, v6 |-> NoAddress,
                   maxDBdays |-> 0, network_expire |-> 0, debug |-> {}]

WriterAppend ==
    /\ appended < MaxAppends
    /\ \E ts \in 1 .. MaxTime : add_to_fifo_buffer(ts)
    /\ appended' = appended + 1
    /\ UNCHANGED <<LOG_SIZE, req, resp, client, calls, listVars, configVars,
                   raceVars>>

Request ==
    /\ \E auth \in {"authorized", "unauthorized"}, hasID \in BOOLEAN, nextID \in RequestIds :
           api_ftl_dnsmasq_log(auth, hasID, IF hasID THEN nextID ELSE 0)
    /\ list_req' = NoListRequest
    /\ list_resp' = NoListResponse
    /\ database' = NoDatabaseRequest
    /\ UNCHANGED <<LOG_SIZE, appended, client, configVars, raceVars>>

ClientPoll ==
    /\ client_poll
    /\ UNCHANGED <<LOG_SIZE, appended, listVars, configVars, raceVars>>

\* the writer and arbitrary requests
Next == WriterAppend \/ Request

Spec == Init /\ [][Next]_vars

\* the writer and one client tailing the log
NextPoll == WriterAppend \/ ClientPoll

SpecPoll == Init /\ [][NextPoll]_vars

\* One request to api_list. req, resp, list_req and list_resp describe the
\* connection handled last, so the log-tail request of an earlier connection
\* is gone.
ListRequest ==
    /\ \E auth \in {"authorized", "unauthorized"}, uri \in ListUris,
          method \in HttpMethods, has_field \in BOOLEAN, db \in DbOutcomes :
           api_list(auth, uri, method, has_field, db # "add_fails",
                    db # "del_fails", db # "read_fails", db # "rows_fail")
    /\ req' = NoRequest
    /\ resp' = NoResponse
    /\ database' = NoDatabaseRequest
    /\ UNCHANGED <<LOG_SIZE, fifo_log, appended, client, configVars, raceVars>>

\* One request to api_ftl_database, on a connection of its own
DatabaseRequest ==
    /\ \E auth \in {"authorized", "unauthorized"} : api_ftl_database(auth)
    /\ req' = NoRequest
    /\ resp' = NoResponse
    /\ list_req' = NoListRequest
    /\ list_resp' = NoListResponse
    /\ UNCHANGED <<LOG_SIZE, fifo_log, appended, client, configVars, raceVars>>

\* the authenticated API handlers serving requests
NextApi == Request \/ ListRequest \/ DatabaseRequest

SpecApi == Init /\ [][NextApi]_vars

\* the texts passed for `key`: those of its type, any text for no item
KeyTexts(key) ==
    IF FindItem(ConfigItems, key) = 0 THEN {"abc"}
    ELSE ValueTexts(ConfigItems[FindItem(ConfigItems, key)].t)

\* the trial write of the dnsmasq config can fail only where it is made
TrialOutcomes(key) ==
    IF /\ FindItem(ConfigItems, key) # 0
       /\ FLAG_RESTART_DNSMASQ \in ConfigItems[FindItem(ConfigItems, key)].f
    THEN BOOLEAN ELSE {TRUE}

CliSet ==
    /\ cli_calls < MaxCliCalls
    /\ \E key \in Keys : \E value \in KeyTexts(key), dnsmasq_ok \in TrialOutcomes(key) :
           LET res == set_config_from_CLI(config, key, value, dnsmasq_ok)
           IN  /\ config' = res.config
               /\ calls' = res.calls
               /\ cli' = [op |-> "set", key |-> key, value |-> value, quiet |-> FALSE,
                          dnsmasq_ok |-> dnsmasq_ok, ret |-> res.ret, out |-> res.out]
    /\ cli_calls' = cli_calls + 1
    /\ UNCHANGED <<ringVars, listVars, callers, tomlVars, raceVars>>

CliGet ==
    /\ cli_calls < MaxCliCalls
    /\ \E key \in Keys, quiet \in BOOLEAN :
           LET res == get_config_from_CLI(config, key, quiet)
           IN  /\ config' = res.config
               /\ calls' = res.calls
               /\ cli' = [op |-> "get", key |-> key, value |-> "none", quiet |-> quiet,
                          dnsmasq_ok |-> TRUE, ret |-> res.ret, out |-> res.out]
    /\ cli_calls' = cli_calls + 1
    /\ UNCHANGED <<ringVars, listVars, callers, tomlVars, raceVars>>

\* a sequence of CLI calls, one after the other
NextCli == CliSet \/ CliGet

SpecCli == Init /\ [][NextCli]_vars

\* The keys the concurrent callers set
RaceKeys == {"item.bool", "item.uint16", "item.privacylevel", "no.such.key"}

\* line 309: the caller copies the live config
CallerDuplicate(c) ==
    /\ callers[c].pc = "idle"
    /\ \E key \in RaceKeys : \E value \in KeyTexts(key), dnsmasq_ok \in TrialOutcomes(key) :
           callers' = [callers EXCEPT ![c] =
                          [pc |-> "duplicated", key |-> key, value |-> value,
                           dnsmasq_ok |-> dnsmasq_ok,
                           newconf |-> duplicate_config(config), ret |-> -1]]
    /\ UNCHANGED <<ringVars, listVars, calls, cliVars, tomlVars, raceVars>>

\* lines 310-339: key lookup and parsing, on the caller's copy
CallerParse(c) ==
    /\ callers[c].pc = "duplicated"
    /\ LET i == FindItem(callers[c].newconf, callers[c].key)
           r == readStringValue(callers[c].newconf, i, callers[c].value)
       IN  callers' = [callers EXCEPT ![c] =
               IF i = 0 THEN [@ EXCEPT !.pc = "done", !.ret = 2]
               ELSE IF ~r.ok THEN [@ EXCEPT !.pc = "done", !.ret = 0]
               ELSE [@ EXCEPT !.pc = "parsed", !.newconf = r.conf]]
    /\ UNCHANGED <<ringVars, listVars, calls, cliVars, tomlVars, raceVars>>

\* lines 341-364 and 372-384: comparison with the live item and the trial
\* write of the dnsmasq config
CallerCompare(c) ==
    /\ callers[c].pc = "parsed"
    /\ LET i == FindItem(config, callers[c].key)
       IN  callers' = [callers EXCEPT ![c] =
               IF ~compare_config_item(config[i].t, callers[c].newconf[i].v, config[i].v)
               THEN IF FLAG_RESTART_DNSMASQ \in config[i].f /\ ~callers[c].dnsmasq_ok
                    THEN [@ EXCEPT !.pc = "done", !.ret = 3]
                    ELSE [@ EXCEPT !.pc = "changed"]
               ELSE [@ EXCEPT !.pc = "done", !.ret = EXIT_SUCCESS]]
    /\ UNCHANGED <<ringVars, listVars, calls, cliVars, tomlVars, raceVars>>

\* lines 366-384: replace_config(&newconf) installs the caller's copy
CallerReplace(c) ==
    /\ callers[c].pc = "changed"
    /\ config' = callers[c].newconf
    /\ callers' = [callers EXCEPT ![c] = [@ EXCEPT !.pc = "done", !.ret = EXIT_SUCCESS]]
    /\ UNCHANGED <<ringVars, listVars, calls, cli, cli_calls, tomlVars, raceVars>>

\* two calls of set_config_from_CLI running at the same time; nothing in
\* lines 305-385 takes a lock
NextCliRace ==
    \E c \in Callers :
        CallerDuplicate(c) \/ CallerParse(c) \/ CallerCompare(c) \/ CallerReplace(c)

SpecCliRace == Init /\ [][NextCliRace]_vars

\* FTL starts and reads a config file
LoadToml ==
    /\ ~toml.exists
    /\ \E mh \in FileValues("maxHistory"), dbi \in FileValues("DBinterval"),
          ds \in FileValues("delayStartup"), pl \in FileValues("privacyLevel"),
          st \in FileValues("sessionTimeout") :
           LET file == [NoFile EXCEPT !.exists = TRUE, !.maxHistory = mh,
                                      !.DBinterval = dbi, !.delayStartup = ds,
                                      !.privacyLevel = pl, !.sessionTimeout = st]
           IN  /\ toml' = file
               /\ ftl_conf' = readFTLtoml(file)
    /\ UNCHANGED <<ringVars, listVars, calls, cliVars, callers, raceVars>>

\* FTL starts again and finds no config file, or one that does not parse
LoadMissing ==
    /\ toml' = NoFile
    /\ ftl_conf' = readFTLtoml(NoFile)
    /\ UNCHANGED <<ringVars, listVars, calls, cliVars, callers, raceVars>>

\* FTL starts and reads a config file with settings of [dns], [database]
\* and [debug] that are not ranges
LoadTomlSettings ==
    /\ ~toml.exists
    /\ \E cdi \in BoolValues, esni \in BoolValues, ip6 \in AddressValues,
          days \in DayValues("maxDBdays"), exp \in DayValues("expire"),
          all \in BoolValues, flags \in [LoopedFlags -> BoolValues] :
           LET file == [NoFile EXCEPT !.exists = TRUE, !.CNAMEdeepInspect = cdi,
                                      !.blockESNI = esni, !.IPv6 = ip6,
                                      !.maxDBdays = days, !.expire = exp,
                                      !.debugAll = all, !.debugFlag = flags]
           IN  /\ toml' = file
               /\ ftl_conf' = readFTLtoml(file)
    /\ UNCHANGED <<ringVars, listVars, calls, cliVars, callers, raceVars>>

\* readDebugSettings is called on its own, on a file with no other table
\* than [debug], and again after the file was edited
ReloadDebug ==
    /\ OnlyDebug(toml)
    /\ \E all \in BoolValues, flags \in [LoopedFlags -> BoolValues] :
           LET file == [NoFile EXCEPT !.exists = TRUE, !.debugAll = all,
                                      !.debugFlag = flags]
           IN  /\ toml' = file
               /\ ftl_conf' = readDebugSettings(file, ftl_conf)
    /\ UNCHANGED <<ringVars, listVars, calls, cliVars, callers, raceVars>>

NextToml == LoadToml \/ LoadTomlSettings \/ ReloadDebug \/ LoadMissing

SpecToml == Init /\ [][NextToml]_vars

\* the messages of a log array, in the order returned
Messages(log) == [k \in 1 .. Len(log) |-> log[k].message]

\* The handler of ftl.c running beside the writer, neither taking a lock:
\* every read of fifo_log->next_id and every turn of the read loop is a step
\* of its own, and so are the two halves of an append.

\* append, first half: the slot's timestamp and message are written
WriteSlot ==
    /\ writer = "idle"
    /\ appended < MaxRaceAppends
    /\ \E ts \in 1 .. MaxTime :
           fifo_log' = [fifo_log EXCEPT
                           !.timestamp[fifo_log.next_id % LOG_SIZE] = ts,
                           !.message[fifo_log.next_id % LOG_SIZE] = appended]
    /\ writer' = "written"
    /\ UNCHANGED <<LOG_SIZE, appended, req, resp, client, calls, listVars, configVars,
                   handler>>

\* append, second half: next_id++
IncrementNextId ==
    /\ writer = "written"
    /\ fifo_log' = [fifo_log EXCEPT !.next_id = UInc(fifo_log.next_id)]
    /\ appended' = appended + 1
    /\ writer' = "idle"
    /\ UNCHANGED <<LOG_SIZE, req, resp, client, calls, listVars, configVars, handler>>

\* lines 63-77: the client polls, the first time without nextID, then with
\* the nextID of the previous response
PollStart ==
    /\ handler.pc = "idle"
    /\ handler' = [pc |-> IF client.polls > 0 THEN "L79" ELSE "L108",
                   hasID |-> client.polls > 0, nextID |-> client.cursor,
                   start |-> 0, i |-> 0, log |-> <<>>]
    /\ UNCHANGED <<ringVars, calls, listVars, configVars, writer>>

ToLoop(start) == [handler EXCEPT !.pc = "L108", !.start = start, !.i = start]

\* line 79: if(nextID >= fifo_log->next_id)
Line79 ==
    /\ handler.pc = "L79"
    /\ handler' = IF handler.nextID >= fifo_log.next_id THEN ToLoop(LOG_SIZE)
                  ELSE [handler EXCEPT !.pc = "L84"]
    /\ UNCHANGED <<ringVars, calls, listVars, configVars, writer>>

\* line 84, left of &&: fifo_log->next_id > LOG_SIZE
Line84 ==
    /\ handler.pc = "L84"
    /\ handler' = [handler EXCEPT !.pc = IF fifo_log.next_id > LOG_SIZE
                                         THEN "L84b" ELSE "L90"]
    /\ UNCHANGED <<ringVars, calls, listVars, configVars, writer>>

\* line 84, right of &&: nextID < (fifo_log->next_id) - LOG_SIZE
Line84b ==
    /\ handler.pc = "L84b"
    /\ handler' = IF handler.nextID < USub(fifo_log.next_id, LOG_SIZE) THEN ToLoop(0)
                  ELSE [handler EXCEPT !.pc = "L90"]
    /\ UNCHANGED <<ringVars, calls, listVars, configVars, writer>>

\* line 90: else if(fifo_log->next_id >= LOG_SIZE), else start = nextID
Line90 ==
    /\ handler.pc = "L90"
    /\ handler' = IF fifo_log.next_id >= LOG_SIZE THEN [handler EXCEPT !.pc = "L94"]
                  ELSE ToLoop(handler.nextID)
    /\ UNCHANGED <<ringVars, calls, listVars, configVars, writer>>

\* line 94: start = LOG_SIZE - (fifo_log->next_id - nextID)
Line94 ==
    /\ handler.pc = "L94"
    /\ handler' = ToLoop(USub(LOG_SIZE, USub(fifo_log.next_id, handler.nextID)))
    /\ UNCHANGED <<ringVars, calls, listVars, configVars, writer>>

\* lines 108-120: one turn of the loop over the slots
Line108 ==
    /\ handler.pc = "L108"
    /\ handler' =
          IF handler.i < LOG_SIZE /\ fifo_log.timestamp[handler.i] # 0
          THEN [handler EXCEPT
                   !.i = handler.i + 1,
                   !.log = Append(handler.log,
                                  [timestamp |-> fifo_log.timestamp[handler.i],
                                   message |-> fifo_log.message[handler.i]])]
          ELSE [handler EXCEPT !.pc = "L122"]
    /\ UNCHANGED <<ringVars, calls, listVars, configVars, writer>>

\* lines 121-125: nextID is read from fifo_log->next_id and the response is
\* sent; the client keeps the messages and the reported nextID
Line122 ==
    /\ handler.pc = "L122"
    /\ req' = [auth |-> "authorized", hasID |-> handler.hasID,
               nextID |-> handler.nextID, start |-> handler.start]
    /\ resp' = [status |-> "ok", log |-> handler.log, nextID |-> fifo_log.next_id]
    /\ calls' = <<"check_client_auth", "fifo_log">>
    /\ client' = [cursor |-> fifo_log.next_id,
                  recv |-> client.recv \o Messages(handler.log),
                  polls |-> IF client.polls < 2 THEN client.polls + 1 ELSE 2,
                  lagged |-> client.lagged \/ (appended - client.seen >= LOG_SIZE),
                  idle |-> client.polls > 0 /\ appended = client.seen,
                  seen |-> appended]
    /\ handler' = IdleHandler
    /\ UNCHANGED <<LOG_SIZE, fifo_log, appended, listVars, configVars, writer>>

NextRace ==
    \/ WriteSlot \/ IncrementNextId
    \/ PollStart \/ Line79 \/ Line84 \/ Line84b \/ Line90 \/ Line94 \/ Line108 \/ Line122

SpecRace == Init /\ [][NextRace]_vars

----------------------------------------------------------------------------
(* What a response holds *)

\* the last request was let through by check_client_auth
Served == req.auth = "authorized"

\* the lines numbered a .. b-1, in increasing order
Lines(a, b) == [k \in 1 .. (b - a) |-> a + (k - 1)]

----------------------------------------------------------------------------
(* Cursor resolution, claims C1 - C4 *)

\* C1: a served request whose nextID is at or past the log's next_id gets
\* start = LOG_SIZE, an empty log array, and an ordinary (non-error) reply.
C1_CaughtUpIsEmpty ==
    (Served /\ req.hasID /\ req.nextID >= resp.nextID)
        => /\ req.start = LOG_SIZE
           /\ resp.log = <<>>
           /\ resp.status = "ok"

C1_Witness ==
    /\ Served /\ req.hasID
    /\ resp.nextID > 0 /\ resp.nextID < LOG_SIZE
    /\ req.nextID = resp.nextID
    /\ req.start = LOG_SIZE /\ resp.log = <<>> /\ resp.status = "ok"

\* C2: with next_id > LOG_SIZE, a served request whose nextID is below
\* next_id - LOG_SIZE (already overwritten) gets start = 0 and an ordinary
\* reply holding all LOG_SIZE retained lines.
C2_EvictedServesAll ==
    (Served /\ req.hasID /\ resp.nextID > LOG_SIZE
        /\ req.nextID < resp.nextID - LOG_SIZE)
        => /\ req.start = 0
           /\ resp.status = "ok"
           /\ Len(resp.log) = LOG_SIZE
           /\ {resp.log[k].message : k \in 1 .. Len(resp.log)}
                  = (resp.nextID - LOG_SIZE) .. (resp.nextID - 1)

C2_Witness ==
    /\ Served /\ req.hasID
    /\ LOG_SIZE >= 2 /\ resp.nextID > LOG_SIZE + 1
    /\ req.nextID = resp.nextID - LOG_SIZE - 1
    /\ req.start = 0 /\ Len(resp.log) = LOG_SIZE

\* C3: with next_id > LOG_SIZE, a served request whose nextID lies in
\* next_id - LOG_SIZE .. next_id - 1 gets start = LOG_SIZE - (next_id - nextID),
\* a slot in 0 .. LOG_SIZE-1.
C3_MeasureFromEnd ==
    (Served /\ req.hasID /\ resp.nextID > LOG_SIZE
        /\ resp.nextID - LOG_SIZE <= req.nextID /\ req.nextID < resp.nextID)
        => /\ req.start = LOG_SIZE - (resp.nextID - req.nextID)
           /\ req.start \in 0 .. (LOG_SIZE - 1)

C3_Witness ==
    /\ Served /\ req.hasID
    /\ LOG_SIZE >= 2 /\ resp.nextID > LOG_SIZE
    /\ req.nextID = resp.nextID - LOG_SIZE + 1
    /\ req.start = 1

\* C4 as stated: with next_id <= LOG_SIZE, a served request whose nextID is in
\* 0 .. next_id (next_id included) gets start = nextID.
C4_AsStated ==
    (Served /\ req.hasID /\ resp.nextID <= LOG_SIZE
        /\ 0 <= req.nextID /\ req.nextID <= resp.nextID)
        => req.start = req.nextID

\* C4 amended: with next_id <= LOG_SIZE, a served request whose nextID is in
\* 0 .. next_id - 1 gets start = nextID; at nextID = next_id it gets
\* start = LOG_SIZE.
C4_BelowNextId ==
    /\ (Served /\ req.hasID /\ resp.nextID <= LOG_SIZE
            /\ 0 <= req.nextID /\ req.nextID < resp.nextID)
          => req.start = req.nextID
    /\ (Served /\ req.hasID /\ resp.nextID <= LOG_SIZE
            /\ req.nextID = resp.nextID)
          => req.start = LOG_SIZE

C4_Witness ==
    /\ Served /\ req.hasID
    /\ resp.nextID = 2 /\ resp.nextID < LOG_SIZE
    /\ req.nextID = 1 /\ req.start = 1
    /\ Len(resp.log) = 1

----------------------------------------------------------------------------
(* What a read returns, claims C5, C6, C9 *)

\* C5 as stated: once next_id >= LOG_SIZE, a served request whose nextID lies
\* in next_id - LOG_SIZE .. next_id - 1 is answered with exactly the lines
\* nextID .. next_id - 1, in increasing order.
C5_AsStated ==
    (Served /\ req.hasID /\ resp.nextID >= LOG_SIZE
        /\ resp.nextID - LOG_SIZE <= req.nextID /\ req.nextID < resp.nextID)
        => Messages(resp.log) = Lines(req.nextID, resp.nextID)

\* C6: while next_id <= LOG_SIZE, a served request without nextID, or with a
\* nextID below next_id, is answered with exactly the lines nextID .. next_id-1
\* (from 0 without nextID), in order, none of them from an unwritten slot.
C6_UnwrappedRead ==
    (Served /\ resp.nextID <= LOG_SIZE
        /\ (~req.hasID \/ req.nextID < resp.nextID))
        => /\ Messages(resp.log)
                = Lines(IF req.hasID THEN req.nextID ELSE 0, resp.nextID)
           /\ \A k \in 1 .. Len(resp.log) : resp.log[k].timestamp # 0

C6_Witness ==
    /\ Served /\ ~req.hasID
    /\ LOG_SIZE = 3 /\ resp.nextID = 2
    /\ Messages(resp.log) = <<0, 1>>
    /\ fifo_log.next_id = 2 /\ fifo_log.timestamp[2] = 0

\* C9: while next_id < LOG_SIZE, slot i has timestamp 0 exactly when
\* i >= next_id; once next_id >= LOG_SIZE no slot has timestamp 0, and a
\* served read made then returns LOG_SIZE - start entries.
C9_Sentinel ==
    /\ fifo_log.next_id < LOG_SIZE
          => \A i \in Slots : (fifo_log.timestamp[i] = 0) <=> (i >= fifo_log.next_id)
    /\ fifo_log.next_id >= LOG_SIZE
          => \A i \in Slots : fifo_log.timestamp[i] # 0
    /\ (Served /\ resp.nextID >= LOG_SIZE)
          => Len(resp.log) = LOG_SIZE - req.start

C9_Witness ==
    /\ Served /\ req.hasID
    /\ LOG_SIZE = 3 /\ resp.nextID > LOG_SIZE
    /\ req.start = 1 /\ Len(resp.log) = 2
    /\ \A i \in Slots : fifo_log.timestamp[i] # 0

----------------------------------------------------------------------------
(* The writer, claim C8 *)

\* C8: after n appends to a fresh log next_id = n, min(n, LOG_SIZE) slots
\* hold an entry (never more than LOG_SIZE), and for n >= 1 slot
\* (n - 1) mod LOG_SIZE holds the line appended last.
C8_AppendCount ==
    /\ fifo_log.next_id = appended
    /\ Cardinality({i \in Slots : fifo_log.timestamp[i] # 0})
          = (IF appended < LOG_SIZE THEN appended ELSE LOG_SIZE)
    /\ appended >= 1
          => /\ fifo_log.message[(appended - 1) % LOG_SIZE] = appended - 1
             /\ fifo_log.timestamp[(appended - 1) % LOG_SIZE] # 0

C8_Witness ==
    /\ LOG_SIZE = 3 /\ appended = 5
    /\ fifo_log.next_id = 5
    /\ fifo_log.message[1] = 4 /\ fifo_log.message[2] = 2

----------------------------------------------------------------------------
(* The tailing client, claims C7 and C10 *)

\* C7 as stated: a client that polls with the nextID of its previous
\* response, fewer than LOG_SIZE appends apart, has after each poll received
\* every line appended so far exactly once and in order.
C7_AsStated ==
    (client.polls > 0 /\ ~client.lagged)
        => client.recv = Lines(0, client.seen)

\* C10: a poll made with the nextID of the previous response, no append
\* having happened in between, returns an empty log array and reports the
\* same nextID again.
C10_IdlePollIsEmpty ==
    (client.polls >= 2 /\ client.idle)
        => /\ resp.log = <<>>
           /\ resp.nextID = req.nextID
           /\ resp.status = "ok"
           /\ client.cursor = req.nextID

C10_Witness ==
    /\ client.polls >= 2 /\ client.idle
    /\ req.hasID /\ req.nextID > LOG_SIZE
    /\ resp.log = <<>> /\ resp.nextID = req.nextID
    /\ client.cursor = fifo_log.next_id

----------------------------------------------------------------------------
(* Frame and authorization of the handlers, claims C11 and C12 *)

\* C11: a step that is not an append by the writer, i.e. any log-tail
\* request, authorized or not and with any cursor, leaves next_id and every
\* slot's timestamp and message as they were.
C11_ReadLeavesRing ==
    [][(appended' = appended) => (fifo_log' = fifo_log)]_vars

C11_Witness ==
    /\ Served /\ req.hasID /\ req.nextID = 1
    /\ Len(resp.log) = 2
    /\ fifo_log.next_id = 3 /\ LOG_SIZE = 3
    /\ \A i \in Slots : fifo_log.timestamp[i] # 0 /\ fifo_log.message[i] = i

\* what an unauthorized caller may cause: the authorization check and the
\* unauthorized reply, nothing else
UnauthorizedCalls == <<"check_client_auth", "send_json_unauthorized">>

\* C12: when check_client_auth reports the caller unauthorized, the log-tail
\* handler and the list handler send the unauthorized reply and do nothing
\* else: no read of fifo_log and no gravity database call.
C12_UnauthorizedFirst ==
    /\ req.auth = "unauthorized"
          => /\ calls = UnauthorizedCalls
             /\ resp.status = "unauthorized"
             /\ resp.log = <<>>
    /\ list_req.auth = "unauthorized"
          => /\ calls = UnauthorizedCalls
             /\ list_resp.code = 401
             /\ list_resp.body = "none"

C12_Witness ==
    /\ list_req.auth = "unauthorized"
    /\ list_req.method = "POST" /\ list_req.uri = <<"group">>
    /\ list_req.has_field
    /\ list_resp.code = 401
    /\ calls = UnauthorizedCalls

----------------------------------------------------------------------------
(* Setting a config item from the CLI *)

Range(seq) == {seq[k] : k \in 1 .. Len(seq)}

\* a step that is a call of set_config_from_CLI
IsSetCall == cli_calls' # cli_calls /\ cli'.op = "set"

KnownKey(conf, key) == FindItem(conf, key) # 0

\* `value` parses for the type of the item `key` names
ParsesOk(conf, key, value) ==
    /\ KnownKey(conf, key)
    /\ readStringValue(duplicate_config(conf), FindItem(conf, key), value).ok

\* the item in which readStringValue stores the value parsed for `key`
StoredAt(conf, key) ==
    IF conf[FindItem(conf, key)].t = "CONF_PASSWORD"
    THEN FindItem(conf, key) - 1 ELSE FindItem(conf, key)

\* C13: a call of set_config_from_CLI with an unknown key, or with a value
\* that does not parse for the item's type, leaves every item of the live
\* config as it was, so that get of the key returns what it returned before,
\* and does not call replace_config.
C13_InvalidLeavesConfig ==
    [][(IsSetCall /\ ~ParsesOk(config, cli'.key, cli'.value))
          => /\ config' = config
             /\ "replace_config" \notin Range(calls')
             /\ get_config_from_CLI(config', cli'.key, FALSE)
                  = get_config_from_CLI(config, cli'.key, FALSE)]_vars

\* after a committed change of the port, a privacy level out of range is
\* refused and the committed port is still there
C13_Witness ==
    /\ cli.op = "set" /\ cli.key = "item.privacylevel" /\ cli.value = "4"
    /\ "replace_config" \notin Range(calls)
    /\ calls = <<"duplicate_config", "readStringValue">>
    /\ config[4].v = 5353
    /\ config[16].v = 0

\* C14: a call of set_config_from_CLI whose value does not parse for the
\* item's type returns a status that is neither EXIT_SUCCESS nor 2, the
\* status of an unknown key.
C14_AsStated ==
    (/\ cli.op = "set"
     /\ KnownKey(config, cli.key)
     /\ ~ParsesOk(config, cli.key, cli.value))
        => cli.ret \notin {EXIT_SUCCESS, 2}

\* C15: when the value of an item flagged FLAG_RESTART_DNSMASQ changes and
\* the trial write of the dnsmasq config fails, the call returns 3, does not
\* call replace_config and leaves the live config as it was.
C15_TrialFailureRejects ==
    [][(/\ IsSetCall
        /\ ParsesOk(config, cli'.key, cli'.value)
        /\ FLAG_RESTART_DNSMASQ \in config[FindItem(config, cli'.key)].f
        /\ readStringValue(config, FindItem(config, cli'.key), cli'.value)
               .conf[FindItem(config, cli'.key)].v
             # config[FindItem(config, cli'.key)].v
        /\ ~cli'.dnsmasq_ok)
          => /\ cli'.ret = 3
             /\ "replace_config" \notin Range(calls')
             /\ config' = config]_vars

\* the listening mode was changed before, then a new port fails the trial
C15_Witness ==
    /\ cli.op = "set" /\ cli.key = "item.uint16" /\ cli.value = "5353"
    /\ ~cli.dnsmasq_ok
    /\ cli.ret = 3
    /\ "write_dnsmasq_config" \in Range(calls)
    /\ config[4].v = 53
    /\ config[15].v = 3

\* C16: a call of set_config_from_CLI with a value that parses to the
\* item's current value commits nothing: replace_config is not called, the
\* candidate is freed, the live config is unchanged and the call returns
\* EXIT_SUCCESS.
C16_NoOpCommitsNothing ==
    [][(/\ IsSetCall
        /\ ParsesOk(config, cli'.key, cli'.value)
        /\ Parsed(config, FindItem(config, cli'.key), cli'.value)
             = config[StoredAt(config, cli'.key)].v)
          => /\ "replace_config" \notin Range(calls')
             /\ "free_config" \in Range(calls')
             /\ config' = config
             /\ cli'.ret = EXIT_SUCCESS]_vars

\* the port set to 5353 a second time
C16_Witness ==
    /\ cli.op = "set" /\ cli.key = "item.uint16" /\ cli.value = "5353"
    /\ cli.ret = EXIT_SUCCESS
    /\ "free_config" \in Range(calls)
    /\ "replace_config" \notin Range(calls)
    /\ config[4].v = 5353
    /\ cli.out = [t |-> "CONF_UINT16", v |-> 5353]

\* C17: after set_config_from_CLI(key, text) has succeeded with a text that
\* is valid for the item's type, what get_config_from_CLI(key) reads from
\* the live config is the value parsed from the text.
C17_AsStated ==
    (/\ cli.op = "set"
     /\ ParsesOk(config, cli.key, cli.value)
     /\ cli.ret = EXIT_SUCCESS)
        => get_config_from_CLI(config, cli.key, FALSE).out.v
             = Parsed(config, FindItem(config, cli.key), cli.value)

\* the call of caller c was given a known key and a valid value that differs
\* from the value the item had when the calls began, and no trial failed
ValidChange(c) ==
    /\ ParsesOk(ConfigItems, callers[c].key, callers[c].value)
    /\ Parsed(ConfigItems, FindItem(ConfigItems, callers[c].key), callers[c].value)
         # ConfigItems[FindItem(ConfigItems, callers[c].key)].v
    /\ callers[c].dnsmasq_ok

\* C18: when two calls of set_config_from_CLI on different keys, each with a
\* valid value different from the current one, have both returned, the live
\* config holds both new values, whatever the order of their steps.
C18_AsStated ==
    (/\ \A c \in Callers : callers[c].pc = "done" /\ ValidChange(c)
     /\ callers[1].key # callers[2].key)
        => \A c \in Callers :
               config[FindItem(config, callers[c].key)].v
                 = Parsed(ConfigItems, FindItem(ConfigItems, callers[c].key),
                          callers[c].value)

----------------------------------------------------------------------------
(* Loading the config file *)

\* a load has happened: ftl_conf holds what readFTLtoml made of `toml`
Loaded == ftl_conf.DBinterval # 0

\* what the field holds after a load: the file's value when it is there and
\* within lo .. hi, else the default
Checked(value, lo, hi, default) ==
    IF value.ok /\ value.i >= lo /\ value.i <= hi THEN value.i ELSE default

\* C19: after a load each range-checked field holds the file's value when
\* that value is inside the field's range and the default of setDefaults
\* otherwise: maxHistory in 0 .. MAXLOGAGE*3600, DBinterval in 10 .. 86400,
\* delayStartup in 0 .. 300, privacyLevel in PRIVACY_SHOW_ALL ..
\* PRIVACY_MAXIMUM, sessionTimeout at least 0.
C19_AsStated ==
    Loaded =>
        /\ ftl_conf.maxlogage
             = Checked(toml.maxHistory, 0, MAXLOGAGE * 3600, Defaults.maxlogage)
        /\ ftl_conf.DBinterval = Checked(toml.DBinterval, 10, 86400, Defaults.DBinterval)
        /\ ftl_conf.delay_startup
             = Checked(toml.delayStartup, 0, 300, Defaults.delay_startup)
        /\ ftl_conf.privacylevel
             = Checked(toml.privacyLevel, PRIVACY_SHOW_ALL, PRIVACY_MAXIMUM,
                       Defaults.privacylevel)
        /\ ftl_conf.session_timeout
             = IF toml.sessionTimeout.ok /\ toml.sessionTimeout.i >= 0
               THEN toml.sessionTimeout.i ELSE Defaults.session_timeout

----------------------------------------------------------------------------
(* The handler beside the writer *)

\* C20: while next_id stays below the capacity, a client that polls with the
\* nextID reported before has, after every poll, received each line below its
\* cursor exactly once and in order, whatever the order of the steps of the
\* writer and of the handler.
C20_AsStated ==
    (handler.pc = "idle" /\ fifo_log.next_id < LOG_SIZE)
        => client.recv = Lines(0, client.cursor)

----------------------------------------------------------------------------
(* The arithmetic of cursor resolution *)

\* lines 79-101 for a next_id that stays the same: each subtraction that is
\* evaluated has the value of the subtraction on the integers, and the start
\* slot is in 0 .. cap
CursorInRange(cap, n, id) ==
    /\ (id < n /\ n > cap) => USub(n, cap) = n - cap
    /\ (id < n /\ n >= cap /\ ~(n > cap /\ id < USub(n, cap)))
          => /\ USub(n, id) = n - id
             /\ USub(cap, USub(n, id)) = cap - (n - id)
    /\ ResolveStart(cap, n, TRUE, id) \in 0 .. cap

\* every capacity, every unsigned next_id and every unsigned requested id
CursorTotal ==
    \A cap \in 1 .. MaxCapacity, n \in 0 .. UINT_MAX, id \in 0 .. UINT_MAX :
        CursorInRange(cap, n, id)

\* C21: with next_id unchanged during the request, no subtraction of the
\* cursor arithmetic wraps below 0, the start slot is in 0 .. capacity, and
\* the read loop only reads slots 0 .. capacity-1; for every capacity, every
\* unsigned next_id and every unsigned requested id.
C21_CursorInRange ==
    /\ CursorTotal
    /\ Served =>
          /\ req.hasID => CursorInRange(LOG_SIZE, resp.nextID, req.nextID)
          /\ req.start \in 0 .. LOG_SIZE
          /\ req.start + Len(resp.log) <= LOG_SIZE

\* the requested id is next_id - capacity on a wrapped log: measured from
\* the end, the start is slot 0 and all three slots are read
C21_Witness ==
    /\ Served /\ req.hasID
    /\ LOG_SIZE = 3 /\ resp.nextID = 5 /\ req.nextID = 2
    /\ req.start = 0 /\ Len(resp.log) = 3

\* C22: with the writer appending between the handler's reads of next_id,
\* the start slot the handler computes is still in 0 .. capacity: the
\* subtraction at line 94 does not wrap below 0.
C22_AsStated ==
    handler.pc \in {"L108", "L122"} => handler.start \in 0 .. LOG_SIZE

----------------------------------------------------------------------------
(* The eviction test, strict or not *)

\* lines 79-101 with `nextID <= next_id - LOG_SIZE` as the eviction test
ResolveStartNonStrict(cap, next_id, hasID, nextID) ==
    IF ~hasID THEN 0
    ELSE IF nextID >= next_id THEN cap
    ELSE IF next_id > cap /\ nextID <= USub(next_id, cap) THEN 0
    ELSE IF next_id >= cap THEN USub(cap, USub(next_id, nextID))
    ELSE nextID

\* some capacity, next_id > capacity and requested id for which the two
\* tests give different start slots
StartDiffers ==
    \E cap \in 1 .. MaxCapacity, n \in 0 .. UINT_MAX, id \in 0 .. UINT_MAX :
        /\ n > cap
        /\ ResolveStart(cap, n, TRUE, id) # ResolveStartNonStrict(cap, n, TRUE, id)

\* the last request was served at requested id = next_id - capacity
AtEvictionBoundary ==
    /\ Served /\ req.hasID
    /\ resp.nextID > LOG_SIZE
    /\ req.nextID = resp.nextID - LOG_SIZE

\* C23 as stated: for some capacity, next_id > capacity and requested id the
\* start slot resolved with `<` differs from the one resolved with `<=`; in
\* particular a request at requested id = next_id - capacity gets a start
\* slot that the `<=` test would not give.
C23_AsStated ==
    AtEvictionBoundary =>
        /\ StartDiffers
        /\ req.start # ResolveStartNonStrict(LOG_SIZE, resp.nextID, TRUE, req.nextID)

\* for every capacity, next_id and requested id both tests give the same start
SameStartTotal ==
    \A cap \in 1 .. MaxCapacity, n \in 0 .. UINT_MAX, id \in 0 .. UINT_MAX :
        ResolveStart(cap, n, TRUE, id) = ResolveStartNonStrict(cap, n, TRUE, id)

\* C23, amended: the strictness of the eviction test cannot be observed. For
\* every capacity, next_id and requested id the start slot resolved with `<`
\* is the one resolved with `<=`; at requested id = next_id - capacity the
\* measure-from-end branch gives capacity - capacity = 0, the start slot of
\* the eviction branch.
C23_StrictnessUnobservable ==
    /\ SameStartTotal
    /\ Served =>
          /\ req.start = ResolveStartNonStrict(LOG_SIZE, resp.nextID, req.hasID,
                                               req.nextID)
          /\ AtEvictionBoundary => req.start = 0

\* a request exactly at next_id - capacity on a wrapped log of capacity 2
C23_Witness ==
    /\ Served /\ req.hasID
    /\ AtEvictionBoundary
    /\ LOG_SIZE = 2 /\ resp.nextID = 4 /\ req.nextID = 2
    /\ req.start = 0 /\ Len(resp.log) = 2


\* C24: after readFTLtoml on a file whose [dns] table has a boolean
\* blockESNI = b, config.block_esni equals b, whether or not
\* dns.CNAMEdeepInspect is there and whatever its value
C24_AsStated ==
    (toml.exists /\ toml.blockESNI.ok) => ftl_conf.block_esni = toml.blockESNI.b

\* C25: after readFTLtoml on a file with a string dns.ipBlocking.IPv6, a
\* valid IPv6 text makes overwrite_v6 true and v6 that address; any other
\* text, an IPv4 dotted quad for one, leaves overwrite_v6 false and v6
\* unwritten
C25_AsStated ==
    (toml.exists /\ toml.IPv6.ok) =>
        IF inet_pton("AF_INET6", toml.IPv6.s) # 0
        THEN /\ ftl_conf.overwrite_v6
             /\ ftl_conf.v6 = [af |-> "AF_INET6", text |-> toml.IPv6.s]
        ELSE /\ ~ftl_conf.overwrite_v6
             /\ ftl_conf.v6 = NoAddress

\* C26: after readFTLtoml on a file with database.network.expire = e, for
\* e in 1..365 config.network_expire is e and config.maxDBdays is what
\* database.maxDBdays (or its default) gave; any other e changes neither
C26_AsStated ==
    (toml.exists /\ toml.expire.ok) =>
        /\ ftl_conf.maxDBdays = ReadMaxDBdays(toml, Defaults).maxDBdays
        /\ ftl_conf.network_expire =
               IF toml.expire.i \in 1 .. 365 THEN toml.expire.i
               ELSE Defaults.network_expire

\* C27: readDebugSettings applies every flag key of [debug] whenever
\* debug.all is not true, so both when it is false and when it is absent:
\* a key set to true sets exactly its bit of config.debug, a key set to
\* false clears exactly its bit, and the bits of the other flags stay
C27_AsStated ==
    [][(toml'.exists /\ ~(toml'.debugAll.ok /\ toml'.debugAll.b)) =>
          \A f \in AllDebugBits :
              (f \in ftl_conf'.debug) =
                 IF f \in LoopedFlags /\ toml'.debugFlag[f].ok
                 THEN toml'.debugFlag[f].b
                 ELSE f \in ftl_conf.debug]_vars


----------------------------------------------------------------------------
(* The list handler's dispatch and writes *)

\* the list types with a table of their own
ModifiableLists ==
    {"GRAVITY_GROUPS", "GRAVITY_ADLISTS", "GRAVITY_DOMAINLIST_ALLOW_EXACT",
     "GRAVITY_DOMAINLIST_ALLOW_REGEX", "GRAVITY_DOMAINLIST_DENY_EXACT",
     "GRAVITY_DOMAINLIST_DENY_REGEX"}

\* the list types that join several tables
AggregateLists ==
    {"GRAVITY_DOMAINLIST_ALLOW_ALL", "GRAVITY_DOMAINLIST_DENY_ALL",
     "GRAVITY_DOMAINLIST_ALL_EXACT", "GRAVITY_DOMAINLIST_ALL_REGEX",
     "GRAVITY_DOMAINLIST_ALL_ALL"}

\* the request handled last changed, or tried to change, the database
Mutated ==
    {"gravityDB_addToTable", "gravityDB_delFromTable"} \cap Range(calls) # {}

\* C28: gravityDB_addToTable and gravityDB_delFromTable are reached only
\* for the modifiable list types; on an aggregate list type every request
\* that is no GET is answered 400 bad_request without a database call; a GET
\* is served, by api_list_read, for every list type
C28_Dispatch ==
    list_req.auth # "none" =>
        LET listtype == ListType(list_req.uri).listtype
        IN  /\ listtype \in ModifiableLists \cup AggregateLists
            /\ Mutated => listtype \in ModifiableLists
            /\ (list_req.auth = "authorized" /\ listtype \in AggregateLists
                  /\ list_req.method # "GET")
                  => /\ list_resp.code = 400
                     /\ list_resp.error = "bad_request"
                     /\ calls = <<"check_client_auth">>
            /\ (list_req.auth = "authorized" /\ list_req.method = "GET")
                  => /\ Len(calls) >= 2
                     /\ calls[2] = "gravityDB_readTable"
                     /\ ~Mutated

C28_Witness ==
    /\ list_req.auth = "authorized"
    /\ list_req.uri = <<"list", "exact">>
    /\ list_req.method = "DELETE"
    /\ list_resp.code = 400
    /\ list_resp.error = "bad_request"
    /\ ~Mutated

\* the request handled last went to api_list_write
IsWrite ==
    /\ list_req.auth = "authorized"
    /\ ListType(list_req.uri).listtype \in ModifiableLists
    /\ list_req.method \in {"POST", "PUT", "PATCH"}

\* the field api_list_write asks for: name for groups, address for adlists,
\* domain for the domain lists
FieldTable ==
    \A listtype \in ModifiableLists :
        RequiredField(listtype) =
            CASE listtype = "GRAVITY_GROUPS" -> "name"
              [] listtype = "GRAVITY_ADLISTS" -> "address"
              [] listtype \in {"GRAVITY_DOMAINLIST_ALLOW_EXACT",
                               "GRAVITY_DOMAINLIST_ALLOW_REGEX",
                               "GRAVITY_DOMAINLIST_DENY_EXACT",
                               "GRAVITY_DOMAINLIST_DENY_REGEX"} -> "domain"

\* gravityDB_addToTable was called and succeeded: get_list ran after it
AddSucceeded ==
    /\ Len(calls) > 2
    /\ calls[2] = "gravityDB_addToTable"
    /\ calls[3] = "gravityDB_readTable"

\* gravityDB_addToTable was called and failed
AddFailed == calls = <<"check_client_auth", "gravityDB_addToTable">>

RejectsMissingField ==
    ~list_req.has_field =>
        /\ list_resp.code = 400
        /\ list_resp.error = "bad_request"
        /\ "gravityDB_addToTable" \notin Range(calls)

\* C30 as stated: a body without the field the list type needs is answered
\* 400 bad_request and gravityDB_addToTable is not called; with the field, a
\* successful add is answered with a 201 listing filtered by the added
\* argument and a failed add with 400 database_error
C30_AsStated ==
    IsWrite =>
        /\ FieldTable
        /\ RejectsMissingField
        /\ list_req.has_field =>
              /\ AddSucceeded \/ AddFailed
              /\ AddSucceeded => /\ list_resp.code = 201
                                 /\ list_resp.filter = "argument"
                                 /\ list_resp.body # "none"
              /\ AddFailed => /\ list_resp.code = 400
                              /\ list_resp.error = "database_error"

\* C30, amended: after a successful add the reply is that of get_list with
\* code 201 and the added argument as filter, which is the 201 listing when
\* the table can be read and a 400 database_error when it cannot
C30_WriteReplies ==
    IsWrite =>
        /\ FieldTable
        /\ RejectsMissingField
        /\ list_req.has_field =>
              /\ AddSucceeded \/ AddFailed
              /\ AddSucceeded =>
                    /\ list_resp.filter = "argument"
                    /\ \/ list_resp.code = 201 /\ list_resp.body # "none"
                       \/ /\ list_resp.code = 400
                          /\ list_resp.error = "database_error"
                          /\ \/ Len(calls) = 3
                             \/ calls[Len(calls)] = "gravityDB_readTableFinalize"
              /\ AddFailed => /\ list_resp.code = 400
                              /\ list_resp.error = "database_error"
                              /\ list_resp.filter = "none"

C30_Witness ==
    /\ IsWrite
    /\ list_req.uri = <<"adlist">> /\ list_req.method = "POST"
    /\ list_req.has_field
    /\ AddSucceeded
    /\ list_resp.code = 201
    /\ list_resp.filter = "argument"
    /\ list_resp.body = "adlists"


\* C29: when check_client_auth reports the caller unauthorized,
\* api_ftl_database sends the unauthorized reply and nothing else: it does
\* not read the database file's stat data, the number of queries or the
\* SQLite version, and sends no second reply
C29_AsStated ==
    database.auth = "unauthorized" =>
        /\ calls = UnauthorizedCalls
        /\ database.sent = <<"unauthorized">>

====
